---- MODULE Spec2Model ----
(***************************************************************************)
(* GithubAppHandler: classification of webhook deliveries into event      *)
(* types (githubapp/events/event.py), the handler registry and the         *)
(* dispatcher (githubapp/webhook_handler.py), and the lazy requester       *)
(* (githubapp/LazyCompletableGithubObject.py).                             *)
(*                                                                         *)
(* Text is modelled as a sequence of one-character strings so that          *)
(* normalize_dicts works on characters.  A dict is a sequence of           *)
(* <<key, value>> pairs in insertion order (Python dicts are ordered).     *)
(* A payload value is a record [kind, s, n, o]: a string s (kind "str";    *)
(* a url is kept as its characters), a number n (kind "int") or a nested   *)
(* object o (kind "obj", a sequence of <<name, value>> pairs).             *)
(***************************************************************************)
EXTENDS Integers, Sequences, FiniteSets, TLC

\* ------------------------------------------------------------------ bounds
\* add_handler calls per behaviour
MaxRegs == 2
\* attribute reads a handler makes on one resource object per invocation
MaxReads == 2

\* ------------------------------------------------------------- characters
UpperCase ==
    <<"A","B","C","D","E","F","G","H","I","J","K","L","M",
      "N","O","P","Q","R","S","T","U","V","W","X","Y","Z">>
LowerCase ==
    <<"a","b","c","d","e","f","g","h","i","j","k","l","m",
      "n","o","p","q","r","s","t","u","v","w","x","y","z">>

\* str.lower() on one character
LowerChar(c) ==
    IF \E i \in 1..Len(UpperCase) : UpperCase[i] = c
    THEN LowerCase[CHOOSE i \in 1..Len(UpperCase) : UpperCase[i] = c]
    ELSE c

\* str.lower()
StrLower(s) ==
    [i \in 1..Len(s) |-> LowerChar(s[i])]

\* str.startswith(p)
StartsWith(s, p) ==
    /\ Len(s) >= Len(p)
    /\ SubSeq(s, 1, Len(p)) = p

\* str.replace(old, new): every non-overlapping occurrence, left to right
RECURSIVE StrReplace(_, _, _)
StrReplace(s, old, new) ==
    IF Len(s) = 0 THEN s
    ELSE IF StartsWith(s, old)
         THEN new \o StrReplace(SubSeq(s, Len(old) + 1, Len(s)), old, new)
         ELSE <<Head(s)>> \o StrReplace(Tail(s), old, new)

\* a substitution with the two separators the other way round
SubUnderscoreSpace(s) ==
    [i \in 1..Len(s) |-> IF s[i] \in {"_", " "} THEN "-" ELSE s[i]]

\* re.sub(r"[- ]", "_", s)
SubDashSpace(s) ==
    [i \in 1..Len(s) |-> IF s[i] \in {"-", " "} THEN "_" ELSE s[i]]

\* ------------------------------------------------------------------ dicts
DictKeys(d) ==
    {d[i][1] : i \in 1..Len(d)}

\* d[k] for k in d
DictGet(d, k) ==
    d[CHOOSE i \in 1..Len(d) : d[i][1] = k][2]

\* d[k] = v : an existing key keeps its position, a new key goes last
DictSet(d, k, v) ==
    IF k \in DictKeys(d)
    THEN [i \in 1..Len(d) |-> IF d[i][1] = k THEN <<k, v>> ELSE d[i]]
    ELSE Append(d, <<k, v>>)

\* payload values
Str(s) ==
    [kind |-> "str", s |-> s, n |-> 0, o |-> <<>>]
IntV(n) ==
    [kind |-> "int", s |-> "", n |-> n, o |-> <<>>]
Obj(o) ==
    [kind |-> "obj", s |-> "", n |-> 0, o |-> o]

\* ------------------------------------------------- header and body keys
HDelivery ==
    <<"X", "-", "G", "i", "t", "h", "u", "b", "-", "D", "e", "l", "i", "v", "e", "r", "y">>
HEvent ==
    <<"X", "-", "G", "i", "t", "h", "u", "b", "-", "E", "v", "e", "n", "t">>
HHookId ==
    <<"X", "-", "G", "i", "t", "h", "u", "b", "-", "H", "o", "o", "k", "-", "I", "d">>
HTargetId ==
    <<"X", "-", "G", "i", "t", "h", "u", "b", "-", "H", "o", "o", "k", "-", "I", "n", "s", "t", "a", "l", "l", "a", "t", "i", "o", "n", "-", "T", "a", "r", "g", "e", "t", "-", "I", "d">>
HTargetType ==
    <<"X", "-", "G", "i", "t", "h", "u", "b", "-", "H", "o", "o", "k", "-", "I", "n", "s", "t", "a", "l", "l", "a", "t", "i", "o", "n", "-", "T", "a", "r", "g", "e", "t", "-", "T", "y", "p", "e">>
XGithubPrefix ==
    <<"x", "-", "g", "i", "t", "h", "u", "b", "-">>
kEvent ==
    <<"e", "v", "e", "n", "t">>
kAction ==
    <<"a", "c", "t", "i", "o", "n">>
kState ==
    <<"s", "t", "a", "t", "e">>
kInstallation ==
    <<"i", "n", "s", "t", "a", "l", "l", "a", "t", "i", "o", "n">>
kSender ==
    <<"s", "e", "n", "d", "e", "r">>
kRepository ==
    <<"r", "e", "p", "o", "s", "i", "t", "o", "r", "y">>
kCheckSuite ==
    <<"c", "h", "e", "c", "k", "_", "s", "u", "i", "t", "e">>
kBranches ==
    <<"b", "r", "a", "n", "c", "h", "e", "s">>
kCommit ==
    <<"c", "o", "m", "m", "i", "t">>
kContext ==
    <<"c", "o", "n", "t", "e", "x", "t">>
kCreatedAt ==
    <<"c", "r", "e", "a", "t", "e", "d", "_", "a", "t">>
kDescription ==
    <<"d", "e", "s", "c", "r", "i", "p", "t", "i", "o", "n">>
kId ==
    <<"i", "d">>
kName ==
    <<"n", "a", "m", "e">>
kSha ==
    <<"s", "h", "a">>
kTargetUrl ==
    <<"t", "a", "r", "g", "e", "t", "_", "u", "r", "l">>
kUpdatedAt ==
    <<"u", "p", "d", "a", "t", "e", "d", "_", "a", "t">>

\* ------------------------------------------------------- event hierarchy
\* Event and the event classes of githubapp/events, plus two classes an
\* application may declare later (class statements run after import).
ImportedTypes ==
    {"Event", "CheckSuiteEvent", "CheckSuiteCompletedEvent",
     "CheckSuiteRequestedEvent", "CheckSuiteRerequestedEvent", "StatusEvent"}
LateTypes ==
    {"CheckSuiteCompletedLateEvent", "StatusSuccessEvent"}
Types ==
    ImportedTypes \cup LateTypes

\* the base class named in each class statement
Parent(c) ==
    CASE c = "CheckSuiteEvent" -> "Event"
      [] c = "StatusEvent" -> "Event"
      [] c = "CheckSuiteCompletedEvent" -> "CheckSuiteEvent"
      [] c = "CheckSuiteRequestedEvent" -> "CheckSuiteEvent"
      [] c = "CheckSuiteRerequestedEvent" -> "CheckSuiteEvent"
      [] c = "CheckSuiteCompletedLateEvent" -> "CheckSuiteEvent"
      [] c = "StatusSuccessEvent" -> "StatusEvent"
      [] OTHER -> "object"

\* Python's None; taking its items() is an error, here as there
None ==
    Str("None")

\* the class attribute event_identifier
event_identifier(c) ==
    CASE c = "Event" -> None
      [] c = "CheckSuiteEvent" -> << <<kEvent, Str("check_suite")>> >>
      [] c = "StatusEvent" -> << <<kEvent, Str("status")>> >>
      [] c = "CheckSuiteCompletedEvent" -> << <<kAction, Str("completed")>> >>
      [] c = "CheckSuiteRequestedEvent" -> << <<kAction, Str("requested")>> >>
      [] c = "CheckSuiteRerequestedEvent" -> << <<kAction, Str("rerequested")>> >>
      [] c = "CheckSuiteCompletedLateEvent" -> << <<kAction, Str("completed")>> >>
      [] c = "StatusSuccessEvent" -> << <<kState, Str("success")>> >>

\* __subclasses__() of every class after "import githubapp.events"
ImportedSubclasses ==
    [c \in Types |->
        CASE c = "Event" -> <<"CheckSuiteEvent", "StatusEvent">>
          [] c = "CheckSuiteEvent" ->
                <<"CheckSuiteCompletedEvent", "CheckSuiteRequestedEvent",
                  "CheckSuiteRerequestedEvent">>
          [] OTHER -> <<>>]

VARIABLES
    subclasses,   \* class -> its direct subclasses, in declaration order
    handlers,     \* the registry: leaf class -> list of methods (a defaultdict)
    regs,         \* log of the add_handler calls made so far
    last_call,    \* the last add_handler call and the error it raised
    task,         \* per worker: the webhook delivery it is handling
    EventStatic,  \* the class attributes Event.delivery, Event.github_event, ...
    lazy,         \* a LazyRequester object and the reads made of it
    call          \* a call of a static method or function: arguments, result

vars == <<subclasses, handlers, regs, last_call, task, EventStatic, lazy, call>>

\* ---------------------------------------------------------- classification
\* a normalization that removes "x-github-" at the start of the key only
NormalizeKeyLeadingOnly(attr) ==
    LET low == StrLower(attr)
    IN  SubDashSpace(IF StartsWith(low, XGithubPrefix)
                     THEN SubSeq(low, Len(XGithubPrefix) + 1, Len(low))
                     ELSE low)

\* Event.normalize_dicts: one attr, value pair stored into union_dict
NormalizeKey(attr) ==
    SubDashSpace(StrReplace(StrLower(attr), XGithubPrefix, <<>>))

RECURSIVE NormalizeInto(_, _)

\* a merge that keeps the value stored first under a key
RECURSIVE NormalizeIntoKeepFirst(_, _)
NormalizeIntoKeepFirst(union_dict, d) ==
    IF Len(d) = 0 THEN union_dict
    ELSE LET attr == NormalizeKey(d[1][1])
         IN  NormalizeIntoKeepFirst(
                 IF attr \in DictKeys(union_dict) THEN union_dict
                 ELSE DictSet(union_dict, attr, d[1][2]),
                 Tail(d))

NormalizeInto(union_dict, d) ==
    IF Len(d) = 0 THEN union_dict
    ELSE NormalizeInto(DictSet(union_dict, NormalizeKey(d[1][1]), d[1][2]), Tail(d))

RECURSIVE NormalizeAll(_, _)
NormalizeAll(union_dict, dicts) ==
    IF Len(dicts) = 0 THEN union_dict
    ELSE NormalizeAll(NormalizeInto(union_dict, Head(dicts)), Tail(dicts))

normalize_dicts(dicts) ==
    NormalizeAll(<<>>, dicts)

\* a match that looks at the keys only
matchKeysOnly(cls, data) ==
    LET ident == event_identifier(cls) IN
    \A i \in 1..Len(ident) : ident[i][1] \in DictKeys(data)

\* Event.match
match(cls, data) ==
    LET ident == event_identifier(cls) IN
    \A i \in 1..Len(ident) :
        /\ ident[i][1] \in DictKeys(data)
        /\ ident[i][2] = DictGet(data, ident[i][1])

\* a loop that keeps the last subclass that matches
LastMatch(subs, data) ==
    IF \E i \in 1..Len(subs) : match(subs[i], data)
    THEN subs[CHOOSE i \in 1..Len(subs) :
                /\ match(subs[i], data)
                /\ \A j \in (i + 1)..Len(subs) : ~match(subs[j], data)]
    ELSE "none"

\* the loop of get_event: the first subclass, in order, that matches
FirstMatch(subs, data) ==
    IF \E i \in 1..Len(subs) : match(subs[i], data)
    THEN subs[CHOOSE i \in 1..Len(subs) :
                /\ match(subs[i], data)
                /\ \A j \in 1..(i - 1) : ~match(subs[j], data)]
    ELSE "none"

\* ------------------------------------------------------------- deliveries
\* int(x): a JSON number is itself, a header string is parsed
IntOf ==
    [x \in {"1", "2", "7"} |-> CASE x = "1" -> 1 [] x = "2" -> 2 [] x = "7" -> 7]

IsInt(v) ==
    \/ v.kind = "int"
    \/ v.kind = "str" /\ v.s \in DOMAIN IntOf

int(v) ==
    IF v.kind = "int" THEN v.n ELSE IntOf[v.s]

\* the headers GitHub sends with a delivery
Headers(delivery, event, target) ==
    << <<HDelivery, Str(delivery)>>, <<HEvent, Str(event)>>,
       <<HHookId, Str("1")>>, <<HTargetId, Str(target)>>,
       <<HTargetType, Str("app")>> >>

Installation ==
    <<kInstallation, Obj(<< <<"id", IntV(7)>> >>)>>
\* "https://api.github.com/users/o"
SenderUrl ==
    <<"h","t","t","p","s",":","/","/","a","p","i",".","g","i","t","h","u","b",".","c","o","m","/","u","s","e","r","s","/","o">>
\* "https://github.com/o/r": the repository url of a push payload is the
\* address of the web page
RepositoryUrl ==
    <<"h","t","t","p","s",":","/","/","g","i","t","h","u","b",".","c","o","m","/","o","/","r">>
Sender ==
    <<kSender, Obj(<< <<"login", Str("octocat")>>, <<"url", Str(SenderUrl)>> >>)>>
Repository ==
    <<kRepository, Obj(<< <<"name", Str("repo")>>, <<"url", Str(RepositoryUrl)>> >>)>>
CheckSuite ==
    <<kCheckSuite, Obj(<< <<"id", IntV(1)>> >>)>>

\* the payload fields of a status event, but for sha
StatusFields ==
    << <<kBranches, Obj(<<>>)>>, <<kCommit, Obj(<< <<"sha", Str("abc")>> >>)>>,
       <<kContext, Str("ci")>>, <<kCreatedAt, Str("t0")>>,
       <<kDescription, Str("")>>, <<kId, IntV(1)>>, <<kName, Str("repo")>>,
       <<kState, Str("success")>>, <<kTargetUrl, Str("")>>,
       <<kUpdatedAt, Str("t1")>> >>

\* the same fields with another state
StatusPending ==
    [i \in 1..Len(StatusFields) |->
        IF StatusFields[i][1] = kState THEN <<kState, Str("pending")>>
        ELSE StatusFields[i]]

\* the deliveries handle is called with: <<headers, body>>
Deliveries ==
    << \* 1: check_suite completed
       <<Headers("d1", "check_suite", "2"),
         <<<<kAction, Str("completed")>>, CheckSuite, Installation, Repository, Sender>> >>,
       \* 2: check_suite requested, no repository
       <<Headers("d2", "check_suite", "2"),
         <<<<kAction, Str("requested")>>, CheckSuite, Installation, Sender>> >>,
       \* 3: check_suite with an action no class declares
       <<Headers("d3", "check_suite", "2"),
         <<<<kAction, Str("created")>>, CheckSuite, Installation, Sender>> >>,
       \* 4: status
       <<Headers("d4", "status", "2"),
         StatusFields \o <<<<kSha, Str("abc")>>, Installation, Repository, Sender>> >>,
       \* 5: status without sha
       <<Headers("d5", "status", "2"),
         StatusFields \o <<Installation, Repository, Sender>> >>,
       \* 6: check_suite completed without installation
       <<Headers("d6", "check_suite", "2"),
         <<<<kAction, Str("completed")>>, CheckSuite, Sender>> >>,
       \* 7: an event no class declares, without installation
       <<Headers("d7", "ping", "2"), <<>> >>,
       \* 8: a target id that is not a number
       <<Headers("d8", "check_suite", "app"),
         <<<<kAction, Str("rerequested")>>, CheckSuite, Installation, Sender>> >>,
       \* 9: a body field named event
       <<Headers("d9", "check_suite", "2"),
         <<<<kEvent, Str("status")>>, <<kAction, Str("completed")>>,
           CheckSuite, Installation, Sender>> >>,
       \* 10: check_suite completed without sender
       <<Headers("d10", "check_suite", "2"),
         <<<<kAction, Str("completed")>>, CheckSuite, Installation>> >>,
       \* 11: status, state pending
       <<Headers("d11", "status", "2"),
         StatusPending \o <<<<kSha, Str("abc")>>, Installation, Repository, Sender>> >> >>

HeadersOf(d) ==
    Deliveries[d][1]
BodyOf(d) ==
    Deliveries[d][2]

\* normalize_dicts(headers, body) of each delivery
UnionDict ==
    [d \in 1..Len(Deliveries) |-> normalize_dicts(<<HeadersOf(d), BodyOf(d)>>)]

\* Event.get_event on the headers and body of delivery d
RECURSIVE get_event(_, _)
get_event(cls, d) ==
    LET union_dict == UnionDict[d]
        event == FirstMatch(subclasses[cls], union_dict)
    IN  IF event # "none" THEN get_event(event, d) ELSE cls

\* --------------------------------------------------------------- registry
\* the callables an application passes to add_handler
Methods ==
    {"on_event", "on_other", "no_params", "two_params"}

\* len(inspect.signature(method).parameters)
NParams(method) ==
    CASE method = "no_params" -> 0
      [] method = "two_params" -> 2
      [] OTHER -> 1

\* a validation that lets a callable without parameters through
ValidateSignatureAtMostOne(method) ==
    NParams(method) <= 1

\* _validate_signature: TRUE when it returns, FALSE when it raises
ValidateSignature(method) ==
    NParams(method) = 1

\* a registration that replaces the list of the leaf
AppendHandlerReplace(h, event, method) ==
    IF event \in DOMAIN h
    THEN [h EXCEPT ![event] = <<method>>]
    ELSE h @@ (event :> <<method>>)

\* a registration that skips a method the leaf already has
AppendHandlerUnique(h, event, method) ==
    IF event \in DOMAIN h
    THEN IF \E i \in 1..Len(h[event]) : h[event][i] = method
         THEN h
         ELSE [h EXCEPT ![event] = Append(@, method)]
    ELSE h @@ (event :> <<method>>)

\* handlers[event].append(method) on a defaultdict(list)
AppendHandler(h, event, method) ==
    IF event \in DOMAIN h
    THEN [h EXCEPT ![event] = Append(@, method)]
    ELSE h @@ (event :> <<method>>)

\* add_handler on registry st.h; st.ok is FALSE once SignatureError was raised,
\* which unwinds every enclosing call
RECURSIVE AddHandlerRec(_, _, _)
RECURSIVE AddHandlerEach(_, _, _)
\* a registration that also stores the method under a type with subclasses
AddHandlerAlsoNonLeaf(event, method, st) ==
    IF ~st.ok THEN st
    ELSE IF ~ValidateSignature(method)
         THEN [st EXCEPT !.ok = FALSE]
         ELSE LET st1 == [st EXCEPT !.h = AppendHandler(st.h, event, method)]
              IN  IF subclasses[event] # <<>>
                  THEN AddHandlerEach(subclasses[event], method, st1)
                  ELSE st1

AddHandlerRec(event, method, st) ==
    IF ~st.ok THEN st
    ELSE IF subclasses[event] # <<>>
         THEN AddHandlerEach(subclasses[event], method, st)
         ELSE IF ~ValidateSignature(method)
              THEN [st EXCEPT !.ok = FALSE]
              ELSE [st EXCEPT !.h = AppendHandler(st.h, event, method)]

\* a fan-out that stops after the first subclass
AddHandlerFirstOnly(subs, method, st) ==
    IF Len(subs) = 0 THEN st
    ELSE AddHandlerRec(Head(subs), method, st)

AddHandlerEach(subs, method, st) ==
    IF Len(subs) = 0 THEN st
    ELSE AddHandlerEach(Tail(subs), method, AddHandlerRec(Head(subs), method, st))

\* the classes declared so far
RECURSIVE DescendantsOf(_)
DescendantsOf(c) ==
    {c} \cup UNION {DescendantsOf(subclasses[c][i]) : i \in 1..Len(subclasses[c])}

Defined ==
    DescendantsOf("Event")

\* ------------------------------------------------------ event construction
\* the keyword parameters without default of each __init__, subclass first
RequiredFields(cls) ==
    CASE cls \in {"StatusEvent", "StatusSuccessEvent"} ->
            <<{kBranches, kCommit, kContext, kCreatedAt, kDescription, kId,
               kName, kSha, kState, kTargetUrl, kUpdatedAt}, {kSender}>>
      [] cls \in {"CheckSuiteEvent", "CheckSuiteCompletedEvent",
                  "CheckSuiteRequestedEvent", "CheckSuiteRerequestedEvent",
                  "CheckSuiteCompletedLateEvent"} ->
            <<{kCheckSuite}, {kSender}>>
      [] OTHER -> <<{kSender}>>

\* the payload fields each __init__ turns into resource objects
ParsedFields(cls) ==
    CASE cls \in {"StatusEvent", "StatusSuccessEvent"} ->
            {kRepository, kSender, kCommit}
      [] cls \in {"CheckSuiteEvent", "CheckSuiteCompletedEvent",
                  "CheckSuiteRequestedEvent", "CheckSuiteRerequestedEvent",
                  "CheckSuiteCompletedLateEvent"} ->
            {kRepository, kSender, kCheckSuite}
      [] OTHER -> {kRepository, kSender}

\* Event._parse_object: clazz(requester, headers={}, attributes=value, completed=True)
\* url: the url attribute as given (no url: the empty text); requested: the
\* urls the object has sent requests to
ParseObject(value) ==
    [attrs |-> {value.o[i][1] : i \in 1..Len(value.o)},
     completed |-> TRUE,
     fetches |-> 0,
     absent |-> 0,
     url |-> IF "url" \in DictKeys(value.o)
             THEN DictGet(value.o, "url").s ELSE <<>>,
     requested |-> <<>>]

\* the assignments to the class attributes in Event.__init__, in order:
\* <<attribute, header, through int()>>
StaticAssignments ==
    << <<"delivery", HDelivery, FALSE>>,
       <<"github_event", HEvent, FALSE>>,
       <<"hook_id", HHookId, TRUE>>,
       <<"hook_installation_target_id", HTargetId, TRUE>>,
       <<"hook_installation_target_type", HTargetType, FALSE>> >>

\* runs the assignments from the i-th on; stops at the first that raises
RECURSIVE AssignStatic(_, _, _)
AssignStatic(st, headers, i) ==
    IF i > Len(StaticAssignments) THEN st
    ELSE LET a == StaticAssignments[i] IN
         IF a[2] \notin DictKeys(headers) THEN [st EXCEPT !.err = "KeyError"]
         ELSE LET v == DictGet(headers, a[2]) IN
              IF a[3] /\ ~IsInt(v) THEN [st EXCEPT !.err = "ValueError"]
              ELSE AssignStatic(
                     [st EXCEPT !.static[a[1]] =
                                   IF a[3] THEN IntV(int(v)) ELSE v],
                     headers, i + 1)

\* event_class(gh=gh, requester=requester, headers=headers, **body)
ConstructEvent(cls, headers, body, static) ==
    LET req == RequiredFields(cls)
        missing == \E i \in 1..Len(req) : ~(req[i] \subseteq DictKeys(body))
        st == AssignStatic([static |-> static, err |-> "none"], headers, 1)
        fields == ParsedFields(cls) \cap DictKeys(body)
    IN  IF missing
        THEN [err |-> "TypeError", static |-> static, objs |-> <<>>]
        ELSE IF st.err # "none"
             THEN [err |-> st.err, static |-> st.static, objs |-> <<>>]
             ELSE [err |-> "none", static |-> st.static,
                   objs |-> [f \in fields |-> ParseObject(DictGet(body, f))]]

\* ------------------------------------------------------------- dispatcher
Workers ==
    {1, 2}

\* at_start: the handlers registered for event_class when the loop started
IdleTask ==
    [pc |-> "idle", d |-> 0, event_class |-> "none", list |-> "none",
     idx |-> 0, calls |-> <<>>, ninst |-> 0, acquired |-> 0,
     objs |-> <<>>, reads |-> 0, outcome |-> "none", at_start |-> <<>>]

\* handle returns after the last turn of its loop
Return(tk) ==
    [tk EXCEPT !.pc = "done", !.outcome = "ok", !.objs = <<>>, !.reads = 0]

\* a loop that notes the error of a handler and goes on to the next one
PropagateSwallow(tk, err) ==
    IF tk.pc = "in_handler"
    THEN [tk EXCEPT !.pc = "loop", !.outcome = err, !.idx = @ + 1,
                    !.objs = <<>>, !.reads = 0]
    ELSE [tk EXCEPT !.pc = "done", !.outcome = err, !.objs = <<>>, !.reads = 0]

\* the exception leaves handle: nothing in handle catches it
Propagate(tk, err) ==
    [tk EXCEPT !.pc = "done", !.outcome = err, !.objs = <<>>, !.reads = 0]

\* a lookup that falls back on the handlers of the nearest base class
RECURSIVE LookupInherited(_)
LookupInherited(event_class) ==
    IF event_class \in DOMAIN handlers THEN event_class
    ELSE IF event_class = "Event" THEN "none"
    ELSE LookupInherited(Parent(event_class))

\* a lookup by handlers[event_class]: the defaultdict stores an empty list
\* under a key it does not have
HandlersGetItem(h, event_class) ==
    IF event_class \in DOMAIN h THEN h ELSE h @@ (event_class :> <<>>)

\* the registry after handlers.get(event_class, []): get does not call the
\* default factory, the registry is as it was
HandlersGet(h, event_class) ==
    h

\* handlers.get(event_class, []): the list stored under the key, else a new
\* empty list that is not in the registry ("none")
Lookup(event_class) ==
    IF event_class \in DOMAIN handlers THEN event_class ELSE "none"

\* the list the for statement of handle iterates, as it is now
IterList(tk) ==
    IF tk.list = "none" THEN <<>> ELSE handlers[tk.list]

\* the error of handle's lines before _get_auth, "none" if they pass
ParseIds(headers, body) ==
    IF HTargetId \notin DictKeys(headers) THEN "KeyError"
    ELSE IF ~IsInt(DictGet(headers, HTargetId)) THEN "ValueError"
    ELSE IF kInstallation \notin DictKeys(body) THEN "KeyError"
    ELSE LET inst == DictGet(body, kInstallation) IN
         IF inst.kind # "obj" THEN "TypeError"
         ELSE IF "id" \notin DictKeys(inst.o) THEN "KeyError"
         ELSE IF ~IsInt(DictGet(inst.o, "id")) THEN "ValueError"
         ELSE "none"

\* handle(headers, body) up to the call of _get_auth
HandleStart(t, d) ==
    /\ task[t].pc = "idle"
    /\ LET cls == get_event("Event", d)
           err == ParseIds(HeadersOf(d), BodyOf(d))
           tk == [IdleTask EXCEPT !.d = d, !.event_class = cls]
       IN  task' = [task EXCEPT ![t] =
                      IF err # "none" THEN Propagate(tk, err)
                      ELSE [tk EXCEPT !.pc = "auth"]]
    /\ UNCHANGED <<subclasses, handlers, regs, last_call, EventStatic, lazy, call>>

\* _get_auth, Github(auth), Requester(auth, ...) and the start of the for loop.
\* flow "user": CLIENT_ID is set, the token comes from the environment;
\* flow "installation": the access token is requested from GitHub, which
\* can fail (ok = FALSE)
HandleAuth(t, flow, ok) ==
    /\ task[t].pc = "auth"
    /\ flow = "user" => ok
    /\ LET tk == [task[t] EXCEPT
                    !.acquired = IF flow = "installation" THEN 1 ELSE 0]
       IN  /\ task' = [task EXCEPT ![t] =
                         IF ~ok THEN Propagate(tk, "GithubException")
                         ELSE [tk EXCEPT !.pc = "loop",
                                         !.list = Lookup(tk.event_class),
                                         !.at_start =
                                            IF tk.event_class \in DOMAIN handlers
                                            THEN handlers[tk.event_class]
                                            ELSE <<>>]]
           /\ handlers' = IF ~ok THEN handlers
                          ELSE HandlersGet(handlers, tk.event_class)
    /\ UNCHANGED <<subclasses, regs, last_call, EventStatic, lazy, call>>

\* one turn of "for handler in ...": the next handler, if there is one, is
\* given a newly constructed event; otherwise handle returns
HandleNext(t) ==
    /\ task[t].pc = "loop"
    /\ LET tk == task[t]
           lst == IterList(tk)
           ev == ConstructEvent(tk.event_class, HeadersOf(tk.d), BodyOf(tk.d),
                                EventStatic)
       IN  IF tk.idx >= Len(lst)
           THEN /\ task' = [task EXCEPT ![t] = Return(tk)]
                /\ UNCHANGED EventStatic
           ELSE /\ EventStatic' = ev.static
                /\ task' = [task EXCEPT ![t] =
                     IF ev.err # "none"
                     THEN Propagate([tk EXCEPT !.ninst = 1], ev.err)
                     ELSE [tk EXCEPT
                             !.pc = "in_handler",
                             !.ninst = 1,
                             !.objs = ev.objs,
                             !.reads = 0,
                             !.calls = Append(@,
                                [method |-> lst[tk.idx + 1],
                                 cls |-> tk.event_class,
                                 inst |-> tk.idx + 1])]]
    /\ UNCHANGED <<subclasses, handlers, regs, last_call, lazy, call>>

\* the running handler reads attribute a of the resource object in field f.
\* The object completes itself (one GET through its requester) when the
\* attribute is not set and the object is not completed.
ReadAttribute(t, f, a) ==
    /\ task[t].pc = "in_handler"
    /\ task[t].reads < MaxReads
    /\ f \in DOMAIN task[t].objs
    /\ LET o == task[t].objs[f]
           notSet == a \notin o.attrs
           fetch == notSet /\ ~o.completed
       IN  task' = [task EXCEPT
                      ![t].reads = @ + 1,
                      ![t].objs[f] =
                         [o EXCEPT
                            !.attrs = IF fetch THEN @ \cup {a} ELSE @,
                            !.completed = @ \/ fetch,
                            !.fetches = IF fetch THEN @ + 1 ELSE @,
                            !.requested = IF fetch THEN Append(@, o.url) ELSE @,
                            !.absent = IF notSet THEN @ + 1 ELSE @]]
    /\ UNCHANGED <<subclasses, handlers, regs, last_call, EventStatic, lazy, call>>

\* the running handler calls a method of the resource object in field f that
\* requests the object's own url (update(), or a get_... of a sub-resource,
\* which requests a path under it)
RequestResource(t, f) ==
    /\ task[t].pc = "in_handler"
    /\ task[t].reads < MaxReads
    /\ f \in DOMAIN task[t].objs
    /\ task[t].objs[f].url # <<>>
    /\ task' = [task EXCEPT
                  ![t].reads = @ + 1,
                  ![t].objs[f].requested = Append(@, task[t].objs[f].url)]
    /\ UNCHANGED <<subclasses, handlers, regs, last_call, EventStatic, lazy, call>>

\* the handler returns: next turn of the loop
HandlerReturn(t) ==
    /\ task[t].pc = "in_handler"
    /\ task' = [task EXCEPT ![t].pc = "loop", ![t].idx = @ + 1,
                            ![t].objs = <<>>, ![t].reads = 0]
    /\ UNCHANGED <<subclasses, handlers, regs, last_call, EventStatic, lazy, call>>

\* the handler raises
HandlerRaise(t) ==
    /\ task[t].pc = "in_handler"
    /\ task' = [task EXCEPT ![t] = Propagate(task[t], "HandlerError")]
    /\ UNCHANGED <<subclasses, handlers, regs, last_call, EventStatic, lazy, call>>

\* the caller of handle has its answer; the worker takes the next delivery
HandleReturn(t) ==
    /\ task[t].pc = "done"
    /\ task' = [task EXCEPT ![t] = IdleTask]
    /\ UNCHANGED <<subclasses, handlers, regs, last_call, EventStatic, lazy, call>>

\* ----------------------------------------------------------- registration
\* add_handler(event, method)
add_handler(event, method) ==
    /\ Len(regs) < MaxRegs
    /\ event \in Defined
    /\ LET st == AddHandlerRec(event, method, [h |-> handlers, ok |-> TRUE])
       IN  /\ handlers' = st.h
           /\ last_call' = [event |-> event, method |-> method,
                            error |-> IF st.ok THEN "none" ELSE "SignatureError"]
           /\ regs' = IF st.ok
                      THEN Append(regs, [event |-> event, method |-> method,
                                         defined |-> Defined])
                      ELSE regs
    /\ UNCHANGED <<subclasses, task, EventStatic, lazy, call>>

\* a class statement "class c(Parent(c))" runs
DefineSubclass(c) ==
    /\ c \notin Defined
    /\ Parent(c) \in Defined
    /\ subclasses' = [subclasses EXCEPT ![Parent(c)] = Append(@, c)]
    /\ UNCHANGED <<handlers, regs, last_call, task, EventStatic, lazy, call>>

\* ------------------------------------------------------------ specification
ReadableAttrs ==
    {"login", "url", "email"}

\* no LazyRequester was made, no function is being applied
NoLazy ==
    [made |-> FALSE]
NoCall ==
    [op |-> "none"]

StaticNone ==
    [delivery |-> None, github_event |-> None, hook_id |-> None,
     hook_installation_target_id |-> None,
     hook_installation_target_type |-> None, installation_id |-> None]

Init ==
    /\ subclasses = ImportedSubclasses
    /\ handlers = <<>>
    /\ regs = <<>>
    /\ last_call = [event |-> "none", method |-> "none", error |-> "none"]
    /\ task = [t \in Workers |-> IF t = 1 THEN IdleTask
                                 ELSE [IdleTask EXCEPT !.pc = "off"]]
    /\ EventStatic = StaticNone
    /\ lazy = NoLazy
    /\ call = NoCall

\* no worker is inside handle
Quiescent ==
    \A t \in Workers : task[t].pc \in {"idle", "off"}

\* The serving application, one delivery at a time: every registration was
\* given a callable that _validate_signature accepts (a SignatureError at
\* import stops the start), and classes are declared and handlers registered
\* between deliveries, not while handle runs.
Next ==
    \/ /\ Quiescent
       /\ \E event \in Types, method \in {m \in Methods : NParams(m) = 1} :
             add_handler(event, method)
    \/ /\ Quiescent
       /\ \E c \in LateTypes : DefineSubclass(c)
    \/ \E t \in Workers, d \in 1..Len(Deliveries) : HandleStart(t, d)
    \/ \E t \in Workers, flow \in {"user", "installation"}, ok \in BOOLEAN :
          HandleAuth(t, flow, ok)
    \/ \E t \in Workers : HandleNext(t)
    \/ \E t \in Workers : HandlerReturn(t)
    \/ \E t \in Workers : HandlerRaise(t)
    \/ \E t \in Workers : HandleReturn(t)

Spec == Init /\ [][Next]_vars

\* Registration alone, with every callable an application may pass
NextReg ==
    \/ \E event \in Types, method \in Methods : add_handler(event, method)
    \/ \E c \in LateTypes : DefineSubclass(c)

SpecReg == Init /\ [][NextReg]_vars

\* The handlers' reads of the resource objects of their event, for an
\* application that registered on_event for every event at import
InitRes ==
    /\ subclasses = ImportedSubclasses
    /\ handlers = AddHandlerRec("Event", "on_event", [h |-> <<>>, ok |-> TRUE]).h
    /\ regs = <<[event |-> "Event", method |-> "on_event", defined |-> Defined]>>
    /\ last_call = [event |-> "Event", method |-> "on_event", error |-> "none"]
    /\ task = [t \in Workers |-> IF t = 1 THEN IdleTask
                                 ELSE [IdleTask EXCEPT !.pc = "off"]]
    /\ EventStatic = StaticNone
    /\ lazy = NoLazy
    /\ call = NoCall

NextRes ==
    \/ \E t \in Workers, d \in 1..Len(Deliveries) : HandleStart(t, d)
    \/ \E t \in Workers, flow \in {"user", "installation"}, ok \in BOOLEAN :
          HandleAuth(t, flow, ok)
    \/ \E t \in Workers : HandleNext(t)
    \/ \E t \in Workers, f \in {kSender, kRepository, kCheckSuite, kCommit},
          a \in ReadableAttrs : ReadAttribute(t, f, a)
    \/ \E t \in Workers, f \in {kSender, kRepository, kCheckSuite, kCommit} :
          RequestResource(t, f)
    \/ \E t \in Workers : HandlerReturn(t)
    \/ \E t \in Workers : HandlerRaise(t)
    \/ \E t \in Workers : HandleReturn(t)

SpecRes == InitRes /\ [][NextRes]_vars

\* ================================================================ properties
\* What the properties speak of, stated from the class statements (Parent)
\* and the log of registrations rather than from the code's own traversal.

\* c and the classes it derives from, up to Event
RECURSIVE AncestorsOrSelf(_)
AncestorsOrSelf(c) ==
    IF c = "Event" THEN {"Event"} ELSE {c} \cup AncestorsOrSelf(Parent(c))

\* every key of ident is in u with an equal value
Satisfies(ident, u) ==
    \A i \in 1..Len(ident) : \E j \in 1..Len(u) : u[j] = ident[i]

\* the classes of defd below T (T included) that no class of defd derives from
LeavesAt(T, defd) ==
    {c \in defd : /\ T \in AncestorsOrSelf(c)
                  /\ \A c2 \in defd : Parent(c2) # c}

HandlersOf(h, c) ==
    IF c \in DOMAIN h THEN h[c] ELSE <<>>

\* the methods registered for leaf c, in the order of the calls: one for every
\* call whose event type had c as a leaf descendant when the call was made
RECURSIVE RegisteredIn(_, _)
RegisteredIn(log, c) ==
    IF Len(log) = 0 THEN <<>>
    ELSE LET r == log[Len(log)]
             before == RegisteredIn(SubSeq(log, 1, Len(log) - 1), c)
         IN  IF c \in LeavesAt(r.event, r.defined)
             THEN Append(before, r.method) ELSE before

MethodsOf(calls) ==
    [i \in 1..Len(calls) |-> calls[i].method]

InHandle(t) ==
    task[t].pc \notin {"idle", "off"}

\* C1: for every headers and body handle is called with, get_event returns one
\* declared event type (at least the root), and the event_identifier of that
\* type and of each of its ancestors below the root is satisfied by
\* normalize_dicts(headers, body).
C1_IdentifierChainSatisfied ==
    \A t \in Workers : InHandle(t) =>
        LET cls == task[t].event_class IN
        /\ cls \in Defined
        /\ \A a \in AncestorsOrSelf(cls) \ {"Event"} :
              Satisfies(event_identifier(a), UnionDict[task[t].d])

\* C1 witness: handle classified a delivery to a class two levels below the root
C1_Witness ==
    \E t \in Workers :
        /\ InHandle(t)
        /\ task[t].event_class = "CheckSuiteRequestedEvent"

\* C2: get_event descends from the root through the first direct subclass, in
\* declaration order, whose identifier matches, and stops where no direct
\* subclass matches: no sibling declared before a chosen class matches, and the
\* returned type has no direct subclass that matches.  (No class is declared
\* while handle runs, so subclasses is as get_event saw it.)
C2_FirstMatchInDeclarationOrder ==
    \A t \in Workers : InHandle(t) =>
        LET cls == task[t].event_class
            u == UnionDict[task[t].d]
        IN  /\ \A i \in 1..Len(subclasses[cls]) :
                  ~Satisfies(event_identifier(subclasses[cls][i]), u)
            /\ \A a \in AncestorsOrSelf(cls) \ {"Event"} :
                  LET sibs == subclasses[Parent(a)] IN
                  \A i, j \in 1..Len(sibs) :
                      (sibs[i] = a /\ j < i) =>
                          ~Satisfies(event_identifier(sibs[j]), u)

\* C2 witness: a delivery was classified to CheckSuiteCompletedEvent while a
\* sibling declared after it matches the same delivery
C2_Witness ==
    \E t \in Workers :
        /\ InHandle(t)
        /\ task[t].event_class = "CheckSuiteCompletedEvent"
        /\ "CheckSuiteCompletedLateEvent" \in Defined
        /\ Satisfies(event_identifier("CheckSuiteCompletedLateEvent"),
                     UnionDict[task[t].d])

\* C3: add_handler(T, h) for a T that has subclasses appends h to the handler
\* list of every leaf descendant of T, at any depth, that is declared at that
\* moment, and no type that has subclasses (T included) becomes a key.
C3_FanOutToLeaves ==
    [][\A T \in Types, m \in Methods :
          (add_handler(T, m) /\ subclasses[T] # <<>> /\ NParams(m) = 1) =>
              /\ \A L \in LeavesAt(T, Defined) :
                    HandlersOf(handlers', L) = Append(HandlersOf(handlers, L), m)
              /\ \A k \in (DOMAIN handlers') \ (DOMAIN handlers) :
                    /\ subclasses[k] = <<>>
                    /\ k # T]_vars

\* C3 witness: a handler was registered against the root and is stored under
\* leaves one and two levels below it
C3_Witness ==
    /\ last_call.event = "Event"
    /\ last_call.error = "none"
    /\ {"StatusEvent", "CheckSuiteCompletedEvent", "CheckSuiteRequestedEvent",
        "CheckSuiteRerequestedEvent"} \subseteq DOMAIN handlers
    /\ \E k \in DOMAIN handlers : Len(handlers[k]) = 2

\* C4: when handle returns normally for a delivery classified to leaf L, every
\* handler registered against a non-leaf type of which L was a leaf descendant
\* has been invoked with an instance of L; and every handler handle invokes
\* receives an instance of the classified type and was registered against that
\* type or one of its ancestors, never against a type outside that line.
C4_NonLeafRegistrationDispatch ==
    \A t \in Workers :
        LET tk == task[t]
            cls == tk.event_class
        IN  /\ (tk.pc = "done" /\ tk.outcome = "ok") =>
                  \A i \in 1..Len(regs) :
                      ( /\ regs[i].event \notin LeavesAt(regs[i].event, regs[i].defined)
                        /\ cls \in LeavesAt(regs[i].event, regs[i].defined) ) =>
                          \E k \in 1..Len(tk.calls) :
                              /\ tk.calls[k].method = regs[i].method
                              /\ tk.calls[k].cls = cls
            /\ \A k \in 1..Len(tk.calls) :
                  /\ tk.calls[k].cls = cls
                  /\ \E i \in 1..Len(regs) :
                        /\ regs[i].method = tk.calls[k].method
                        /\ regs[i].event \in AncestorsOrSelf(cls)

\* C4 witness: the only registration is against CheckSuiteEvent, and a delivery
\* classified to its second leaf has invoked the handler
C4_Witness ==
    \E t \in Workers :
        /\ task[t].pc = "done"
        /\ task[t].outcome = "ok"
        /\ task[t].event_class = "CheckSuiteRequestedEvent"
        /\ Len(regs) = 1
        /\ regs[1].event = "CheckSuiteEvent"
        /\ Len(task[t].calls) = 1

\* C5: handle invokes the handlers registered for the classified type one after
\* another in the order of their registration, once per registration: what it
\* has invoked so far is always the first part of that list, and all of it
\* when handle returns normally.
C5_RegistrationOrder ==
    \A t \in Workers : InHandle(t) =>
        LET tk == task[t]
            reg == RegisteredIn(regs, tk.event_class)
        IN  /\ Len(tk.calls) <= Len(reg)
            /\ MethodsOf(tk.calls) = SubSeq(reg, 1, Len(tk.calls))
            /\ (tk.pc = "done" /\ tk.outcome = "ok") => Len(tk.calls) = Len(reg)

\* C5 witness: the same method was registered through the parent and then
\* directly, and one delivery has invoked it twice
C5_Witness ==
    \E t \in Workers :
        /\ task[t].pc = "done"
        /\ task[t].outcome = "ok"
        /\ task[t].event_class = "CheckSuiteCompletedEvent"
        /\ Len(regs) = 2
        /\ regs[1].event = "CheckSuiteEvent"
        /\ regs[2].event = "CheckSuiteCompletedEvent"
        /\ regs[1].method = regs[2].method
        /\ Len(task[t].calls) = 2

\* C6: when the k-th handler of a dispatch raises, the exception leaves handle:
\* handle is over with that error, handlers 1..k-1 have returned, the k-th is
\* the last one invoked, and no later handler is invoked for that delivery.
C6_HandlerErrorStopsDispatch ==
    \A t \in Workers : task[t].outcome = "HandlerError" =>
        /\ task[t].pc = "done"
        /\ Len(task[t].calls) = task[t].idx + 1
        /\ MethodsOf(task[t].calls) =
              SubSeq(RegisteredIn(regs, task[t].event_class), 1, task[t].idx + 1)

\* C6 witness: the first of two registered handlers raised; the second was
\* not invoked
C6_Witness ==
    \E t \in Workers :
        /\ task[t].outcome = "HandlerError"
        /\ Len(task[t].calls) = 1
        /\ Len(HandlersOf(handlers, task[t].event_class)) = 2

\* C7: add_handler with a callable that does not declare exactly one parameter
\* raises SignatureError and leaves the registry unchanged, also for a type
\* with several leaf descendants; with exactly one parameter it is accepted;
\* no such callable is ever stored.
C7_SignatureErrorKeepsRegistry ==
    [][\A T \in Types, m \in Methods : add_handler(T, m) =>
          /\ IF NParams(m) # 1
             THEN last_call'.error = "SignatureError" /\ handlers' = handlers
             ELSE last_call'.error = "none" /\ handlers' # handlers
          /\ \A k \in DOMAIN handlers' : \A i \in 1..Len(handlers'[k]) :
                NParams(handlers'[k][i]) = 1]_vars

\* C7 witness: a callable without parameters was refused for CheckSuiteEvent,
\* whose three leaves already hold a handler
C7_Witness ==
    /\ last_call.error = "SignatureError"
    /\ last_call.event = "CheckSuiteEvent"
    /\ last_call.method = "no_params"
    /\ "CheckSuiteRerequestedEvent" \in DOMAIN handlers

\* C8 as claimed: when the classified type has no registered handler, handle
\* invokes no handler and returns normally, without any error.
C8_NoHandlerReturnsNormally ==
    \A t \in Workers :
        (task[t].pc = "done" /\ HandlersOf(handlers, task[t].event_class) = <<>>) =>
            /\ task[t].outcome = "ok"
            /\ task[t].calls = <<>>

\* C9: registration is static: the registry holds under a type exactly the
\* registrations made when that type was a declared leaf descendant, so a
\* registration made before a subtype was declared stores nothing under it;
\* and handle invokes for a delivery only handlers registered when the
\* classified type was declared.
C9_RegistrationIsStatic ==
    /\ \A S \in Defined : HandlersOf(handlers, S) = RegisteredIn(regs, S)
    /\ \A t \in Workers : \A k \in 1..Len(task[t].calls) :
          \E i \in 1..Len(regs) :
              /\ regs[i].method = task[t].calls[k].method
              /\ task[t].event_class \in regs[i].defined
              /\ regs[i].event \in AncestorsOrSelf(task[t].event_class)

\* C9 witness: a handler was registered against StatusEvent, StatusSuccessEvent
\* was declared afterwards, and a delivery classified to it invoked nothing
C9_Witness ==
    \E t \in Workers :
        /\ task[t].pc = "done"
        /\ task[t].outcome = "ok"
        /\ task[t].event_class = "StatusSuccessEvent"
        /\ task[t].calls = <<>>
        /\ \E i \in 1..Len(regs) :
              /\ regs[i].event = "StatusEvent"
              /\ "StatusSuccessEvent" \notin regs[i].defined

\* C10 as claimed: the first read of an attribute that the payload did not
\* supply triggers exactly one fetch, and later reads none.
C10_FirstAbsentReadFetchesOnce ==
    \A t \in Workers : \A f \in DOMAIN task[t].objs :
        task[t].objs[f].absent >= 1 => task[t].objs[f].fetches = 1

\* C11 as claimed: credentials are acquired (the access token requested from
\* GitHub) only once a resource fetch is needed: while a delivery is handled,
\* none has been acquired unless one of its resource objects has fetched.
C11_AcquisitionOnlyForFetch ==
    \A t \in Workers :
        task[t].acquired > 0 =>
            \E f \in DOMAIN task[t].objs : task[t].objs[f].fetches > 0

\* C12 as claimed: every handler invoked for a delivery receives the same
\* single event instance.
C12_SingleInstancePerDelivery ==
    \A t \in Workers : \A i, j \in 1..Len(task[t].calls) :
        task[t].calls[i].inst = task[t].calls[j].inst

\* --------------------------------------------------- concurrent deliveries
\* Two requests served at once (the threads of the web server each run
\* handle), for an application that registered on_event for every event at
\* import
InitConc ==
    /\ subclasses = ImportedSubclasses
    /\ handlers = AddHandlerRec("Event", "on_event", [h |-> <<>>, ok |-> TRUE]).h
    /\ regs = <<[event |-> "Event", method |-> "on_event", defined |-> Defined]>>
    /\ last_call = [event |-> "Event", method |-> "on_event", error |-> "none"]
    /\ task = [t \in Workers |-> IdleTask]
    /\ EventStatic = StaticNone
    /\ lazy = NoLazy
    /\ call = NoCall

NextConc ==
    \/ \E t \in Workers, d \in 1..Len(Deliveries) : HandleStart(t, d)
    \/ \E t \in Workers, flow \in {"user", "installation"}, ok \in BOOLEAN :
          HandleAuth(t, flow, ok)
    \/ \E t \in Workers : HandleNext(t)
    \/ \E t \in Workers : HandlerReturn(t)
    \/ \E t \in Workers : HandlerRaise(t)
    \/ \E t \in Workers : HandleReturn(t)

SpecConc == InitConc /\ [][NextConc]_vars

\* what the headers of delivery d say, as Event.__init__ stores it
OwnHeaders(d) ==
    LET h == HeadersOf(d) IN
    [delivery |-> DictGet(h, HDelivery),
     github_event |-> DictGet(h, HEvent),
     hook_id |-> IntV(int(DictGet(h, HHookId))),
     hook_installation_target_id |-> IntV(int(DictGet(h, HTargetId))),
     hook_installation_target_type |-> DictGet(h, HTargetType)]

\* C13 as claimed: with two deliveries processed concurrently, the delivery
\* id, event name, hook id and installation-target id and type a handler reads
\* from its event are those of the headers of the delivery the event was
\* constructed from.
C13_HandlerReadsOwnHeaders ==
    \A t \in Workers :
        task[t].pc = "in_handler" =>
            \A a \in DOMAIN OwnHeaders(task[t].d) :
                EventStatic[a] = OwnHeaders(task[t].d)[a]

\* C14 as claimed: in every reachable state, also after subtypes were defined
\* following earlier registrations, handle instantiates only event types that
\* have no subclasses at the time of the dispatch.
C14_OnlyLeavesInstantiated ==
    \A t \in Workers : \A k \in 1..Len(task[t].calls) :
        subclasses[task[t].calls[k].cls] = <<>>

\* the matched type of delivery d has a constructor parameter without default
\* that the body of d does not supply
LacksRequiredField(cls, d) ==
    \E f \in UNION {RequiredFields(cls)[i] : i \in 1..Len(RequiredFields(cls))} :
        f \notin DictKeys(BodyOf(d))

\* C15 as claimed: for a delivery whose payload lacks a field the constructor
\* of the matched event type requires, handle fails with an error propagated
\* to its caller and invokes no handler.
C15_MissingFieldFailsDelivery ==
    \A t \in Workers :
        (InHandle(t) /\ LacksRequiredField(task[t].event_class, task[t].d)) =>
            /\ task[t].calls = <<>>
            /\ task[t].pc = "done" => task[t].outcome # "ok"

\* ----------------------------------------------------------- fix_attributes
\* "https://github.com"
WebHost ==
    <<"h","t","t","p","s",":","/","/","g","i","t","h","u","b",".","c","o","m">>
\* "https://github"
GithubScheme ==
    SubSeq(WebHost, 1, 14)
\* "https://api.github.com/repos"
ApiRepos ==
    <<"h","t","t","p","s",":","/","/","a","p","i",".","g","i","t","h","u","b",
      ".","c","o","m","/","r","e","p","o","s">>

\* Event.fix_attributes: the dict as it is after the call
fix_attributes(attributes) ==
    LET url == IF "url" \in DictKeys(attributes)
               THEN DictGet(attributes, "url") ELSE <<>>
    IN  IF StartsWith(url, GithubScheme)
        THEN DictSet(attributes, "url", StrReplace(url, WebHost, ApiRepos))
        ELSE attributes

\* the urls the attributes are tried with: up to MaxPieces of these pieces,
\* one after the other
MaxPieces == 3
UrlPieces ==
    {WebHost, GithubScheme, ApiRepos, <<"/", "x">>, <<"p","a","n","y">>,
     <<"c","o","r","r","e","c","t","_","u","r","l">>}
RECURSIVE UrlsOf(_)
UrlsOf(n) ==
    IF n = 0 THEN {<<>>}
    ELSE LET shorter == UrlsOf(n - 1)
         IN  shorter \cup {p \o u : p \in UrlPieces, u \in shorter}
FixInputs ==
    {<< <<"name", <<"x">> >> >>}
        \cup {<< <<"url", u>> >> : u \in UrlsOf(MaxPieces)}
        \cup {<< <<"name", <<"x">> >>, <<"url", u>> >> : u \in UrlsOf(1)}

InitFix ==
    /\ subclasses = ImportedSubclasses
    /\ handlers = <<>>
    /\ regs = <<>>
    /\ last_call = [event |-> "none", method |-> "none", error |-> "none"]
    /\ task = [t \in Workers |-> [IdleTask EXCEPT !.pc = "off"]]
    /\ EventStatic = StaticNone
    /\ lazy = NoLazy
    /\ call \in {[op |-> "fix_attributes", arg |-> a, attributes |-> a,
                  results |-> <<>>] : a \in FixInputs}

\* Event.fix_attributes(attributes), on the same dict once and once more
FixAttributes ==
    /\ call.op = "fix_attributes"
    /\ Len(call.results) < 2
    /\ LET after == fix_attributes(call.attributes)
       IN  call' = [call EXCEPT !.attributes = after,
                                !.results = Append(@, after)]
    /\ UNCHANGED <<subclasses, handlers, regs, last_call, task, EventStatic, lazy>>

NextFix ==
    FixAttributes

SpecFix == InitFix /\ [][NextFix]_vars

\* url is "https://github.com" or "https://github.com/x"
IsWebUrl(url) ==
    /\ StartsWith(url, WebHost)
    /\ Len(url) > Len(WebHost) => url[Len(WebHost) + 1] = "/"

\* C16 as claimed: fix_attributes rewrites a url "https://github.com/x" to
\* "https://api.github.com/repos/x", leaves every other url as it is, and
\* applied a second time changes nothing.
C16_FixAttributesRewritesWebUrl ==
    (call.op = "fix_attributes" /\ Len(call.results) >= 1) =>
        /\ "url" \in DictKeys(call.arg) =>
              LET url == DictGet(call.arg, "url")
                  fixed == DictGet(call.results[1], "url")
              IN  IF IsWebUrl(url)
                  THEN fixed = ApiRepos \o SubSeq(url, Len(WebHost) + 1, Len(url))
                  ELSE fixed = url
        /\ "url" \notin DictKeys(call.arg) => call.results[1] = call.arg
        /\ Len(call.results) = 2 => call.results[2] = call.results[1]

\* ---------------------------------------------------------- normalize_dicts
\* the keys the dicts are tried with: "X-Github-Event", "event", "Hook Id",
\* "hook-id", "X Github Event", "a-X-Github-b", "x-githubx-github--a", "A"
NormKeys ==
    {<<"X","-","G","i","t","h","u","b","-","E","v","e","n","t">>,
     <<"e","v","e","n","t">>,
     <<"H","o","o","k"," ","I","d">>,
     <<"h","o","o","k","-","i","d">>,
     <<"X"," ","G","i","t","h","u","b"," ","E","v","e","n","t">>,
     <<"a","-","X","-","G","i","t","h","u","b","-","b">>,
     <<"x","-","g","i","t","h","u","b","x","-","g","i","t","h","u","b","-","-","a">>,
     <<"A">>}
NormValues ==
    {"1", "2"}

\* pairs in the first dict passed to normalize_dicts
MaxPairs == 2

\* the dicts of at most n pairs; the keys of one dict are distinct
RECURSIVE DictsOf(_)
DictsOf(n) ==
    IF n = 0 THEN {<<>>}
    ELSE LET shorter == DictsOf(n - 1)
             longest == {d \in shorter : Len(d) = n - 1}
         IN  shorter \cup
             {Append(x[1], <<x[2], x[3]>>) :
                 x \in {y \in longest \X NormKeys \X NormValues :
                           y[2] \notin DictKeys(y[1])}}

\* normalize_dicts(d1) and normalize_dicts(d1, d2)
NormInputs ==
    {<<d1>> : d1 \in DictsOf(MaxPairs)}
        \cup {<<d1, d2>> : d1 \in DictsOf(MaxPairs), d2 \in DictsOf(1)}

InitNorm ==
    /\ subclasses = ImportedSubclasses
    /\ handlers = <<>>
    /\ regs = <<>>
    /\ last_call = [event |-> "none", method |-> "none", error |-> "none"]
    /\ task = [t \in Workers |-> [IdleTask EXCEPT !.pc = "off"]]
    /\ EventStatic = StaticNone
    /\ lazy = NoLazy
    /\ call \in {[op |-> "normalize_dicts", dicts |-> ds, results |-> <<>>] :
                    ds \in NormInputs}

\* union_dict = Event.normalize_dicts(*dicts)
NormalizeDicts ==
    /\ call.op = "normalize_dicts"
    /\ Len(call.results) = 0
    /\ call' = [call EXCEPT !.results = <<normalize_dicts(call.dicts)>>]
    /\ UNCHANGED <<subclasses, handlers, regs, last_call, task, EventStatic, lazy>>

\* Event.normalize_dicts(union_dict): the result normalized once more
NormalizeResult ==
    /\ call.op = "normalize_dicts"
    /\ Len(call.results) = 1
    /\ call' = [call EXCEPT
                  !.results = Append(@, normalize_dicts(<<call.results[1]>>))]
    /\ UNCHANGED <<subclasses, handlers, regs, last_call, task, EventStatic, lazy>>

NextNorm ==
    \/ NormalizeDicts
    \/ NormalizeResult

SpecNorm == InitNorm /\ [][NextNorm]_vars

\* the positions where a scan of s from position from on, left to right,
\* finds the text p, an occurrence starting after the end of the one before
RECURSIVE Occurrences(_, _, _)
Occurrences(s, p, from) ==
    IF from + Len(p) - 1 > Len(s) THEN {}
    ELSE IF SubSeq(s, from, from + Len(p) - 1) = p
         THEN {from} \cup Occurrences(s, p, from + Len(p))
         ELSE Occurrences(s, p, from + 1)

\* s without those occurrences of p
Without(s, p) ==
    LET occ == Occurrences(s, p, 1)
        keep == {i \in 1..Len(s) : \A o \in occ : i < o \/ i >= o + Len(p)}
    IN  [j \in 1..Cardinality(keep) |->
            s[CHOOSE i \in keep : Cardinality({x \in keep : x <= i}) = j]]

\* the key a key of an input is stored under: lower-cased, the text
\* "x-github-" removed, '-' and ' ' turned into '_'
ExpectedKey(k) ==
    LET w == Without(StrLower(k), XGithubPrefix)
    IN  [i \in 1..Len(w) |-> IF w[i] = "-" \/ w[i] = " " THEN "_" ELSE w[i]]

\* ExpectedKey of each key the dicts are tried with
ExpectedKeys ==
    [k \in NormKeys |-> ExpectedKey(k)]

\* the items of the input dicts in the order normalize_dicts goes through them
RECURSIVE Items(_)
Items(dicts) ==
    IF Len(dicts) = 0 THEN <<>> ELSE Head(dicts) \o Items(Tail(dicts))

\* no upper-case letter, '-' or ' ' in key, and nowhere the text "x-github-"
IsNormalKey(key) ==
    /\ \A i \in 1..Len(key) :
          /\ \A u \in 1..Len(UpperCase) : key[i] # UpperCase[u]
          /\ key[i] \notin {"-", " "}
    /\ \A i \in 1..Len(key) :
          i + Len(XGithubPrefix) - 1 <= Len(key) =>
              SubSeq(key, i, i + Len(XGithubPrefix) - 1) # XGithubPrefix

\* C17 as claimed: the mapping holds, for every key of every input dict, the
\* normalized key mapped to the original value of that key, and no key of it
\* has an upper-case letter, a '-', a space or the prefix.
C17_NormalizedKeysKeepOwnValue ==
    (call.op = "normalize_dicts" /\ Len(call.results) >= 1) =>
        LET out == call.results[1]
            items == Items(call.dicts)
        IN  /\ \A i \in 1..Len(items) :
                  /\ ExpectedKeys[items[i][1]] \in DictKeys(out)
                  /\ DictGet(out, ExpectedKeys[items[i][1]]) = items[i][2]
            /\ \A key \in DictKeys(out) : IsNormalKey(key)

\* C17, amended: the mapping has exactly the normalized keys of the inputs,
\* each once; the key of every input key is mapped to the value of the last
\* item, in the order of the arguments and of each dict, whose key normalizes
\* to it; and no key of it has an upper-case letter, a '-', a space or the
\* text "x-github-".
C17_NormalizedKeysKeepLastValue ==
    (call.op = "normalize_dicts" /\ Len(call.results) >= 1) =>
        LET out == call.results[1]
            items == Items(call.dicts)
            last(i) == CHOOSE j \in i..Len(items) :
                          /\ ExpectedKeys[items[j][1]] = ExpectedKeys[items[i][1]]
                          /\ \A m \in (j + 1)..Len(items) :
                                ExpectedKeys[items[m][1]] # ExpectedKeys[items[i][1]]
        IN  /\ DictKeys(out) = {ExpectedKeys[items[i][1]] : i \in 1..Len(items)}
            /\ Cardinality(DictKeys(out)) = Len(out)
            /\ \A i \in 1..Len(items) :
                  DictGet(out, ExpectedKeys[items[i][1]]) = items[last(i)][2]
            /\ \A key \in DictKeys(out) : IsNormalKey(key)

\* C17 witness: normalize_dicts was called with an "X-Github-Event" header
\* and a body key "event" of another value; the result has the one key
\* "event" with the value of the body
C17_Witness ==
    /\ call.op = "normalize_dicts"
    /\ Len(call.results) >= 1
    /\ Len(call.dicts) = 2
    /\ \E v, w \in NormValues :
          /\ v # w
          /\ call.dicts[1] = << <<HEvent, v>> >>
          /\ call.dicts[2] = << <<kEvent, w>> >>
          /\ call.results[1] = << <<kEvent, w>> >>

\* C18: normalization is idempotent: normalize_dicts applied to its own result
\* returns that result unchanged, the same keys with the same values in the
\* same order.
C18_NormalizeIdempotent ==
    (call.op = "normalize_dicts" /\ Len(call.results) = 2) =>
        call.results[2] = call.results[1]

\* C18 witness: the result of normalizing a dict with the keys
\* "X-Github-Event" and "Hook Id", which normalization changes, was
\* normalized once more
C18_Witness ==
    /\ call.op = "normalize_dicts"
    /\ Len(call.results) = 2
    /\ DictKeys(call.dicts[1]) = {HEvent, <<"H","o","o","k"," ","I","d">>}
    /\ DictKeys(call.results[2]) = {kEvent, <<"h","o","o","k","_","i","d">>}

\* --------------------------------------------------------------------- root
\* " App up and running!"
AppUpAndRunning ==
    <<" ","A","p","p"," ","u","p"," ","a","n","d"," ","r","u","n","n","i","n","g","!">>

\* root(name)(): the f-string of root_wrapper, name being a str
root(name) ==
    <<"<","h","1",">">> \o name \o AppUpAndRunning \o <<"<","/","h","1",">">>

\* the app names root is tried with: up to MaxNameLen of these characters
MaxNameLen == 3
NameChars ==
    {"t", "e", "s", " ", "<"}
RECURSIVE NamesOf(_)
NamesOf(n) ==
    IF n = 0 THEN {<<>>}
    ELSE LET shorter == NamesOf(n - 1)
         IN  shorter \cup {Append(s, c) : s \in shorter, c \in NameChars}

InitRoot ==
    /\ subclasses = ImportedSubclasses
    /\ handlers = <<>>
    /\ regs = <<>>
    /\ last_call = [event |-> "none", method |-> "none", error |-> "none"]
    /\ task = [t \in Workers |-> [IdleTask EXCEPT !.pc = "off"]]
    /\ EventStatic = StaticNone
    /\ lazy = NoLazy
    /\ call \in {[op |-> "root", name |-> n, results |-> <<>>] :
                    n \in NamesOf(MaxNameLen)}

\* root(name)()
Root ==
    /\ call.op = "root"
    /\ Len(call.results) = 0
    /\ call' = [call EXCEPT !.results = <<root(call.name)>>]
    /\ UNCHANGED <<subclasses, handlers, regs, last_call, task, EventStatic, lazy>>

NextRoot ==
    Root

SpecRoot == InitRoot /\ [][NextRoot]_vars

\* C19 as claimed: root(name)() returns exactly the name followed by
\* " App up and running!", with nothing before or after.
C19_RootReturnsNameAndText ==
    (call.op = "root" /\ Len(call.results) = 1) =>
        call.results[1] = call.name \o AppUpAndRunning

\* ------------------------------------------------------------ LazyRequester
\* attribute reads made of the one LazyRequester
MaxLazyReads == 3

\* what Requester.__init__ sets on the object (two of its attributes)
RequesterAttrs ==
    {"_Requester__auth", "_Requester__base_url"}

\* the attributes read: the flag, what Requester.__init__ sets, and a name
\* nothing ever sets
LazyAttrs ==
    {"_initialized", "no_such_attribute"} \cup RequesterAttrs

\* LazyRequester(): __init__ sets the flag and does not call Requester.__init__
LazyRequester ==
    [made |-> TRUE, _initialized |-> FALSE, attrs |-> {"_initialized"},
     reads |-> <<>>]

\* LazyRequester.initialize: the credentials are read or requested and
\* Requester.__init__ runs (ok), or one of them raises and nothing is set.
\* r is [o, outcome, inits, depth]: the object, how the read ends so far, the
\* calls of initialize and of __getattr__ made by the read
initialize(r, ok) ==
    [r EXCEPT !.inits = @ + 1,
              !.outcome = IF ok THEN "none" ELSE "InitError",
              !.o.attrs = IF ok THEN @ \cup RequesterAttrs ELSE @]

RECURSIVE getattr(_, _, _)
RECURSIVE __getattr__(_, _, _)

\* a __getattr__ that sets the flag once initialize has returned
__getattr__FlagAfter(r, item, ok) ==
    LET r0 == [r EXCEPT !.depth = @ + 1] IN
    IF ~r0.o._initialized
    THEN LET r1 == initialize(r0, ok)
         IN  IF r1.outcome = "InitError" THEN r1
             ELSE getattr([r1 EXCEPT !.o._initialized = TRUE], item, ok)
    ELSE [r0 EXCEPT !.outcome = "AttributeError"]

\* LazyRequester.__getattr__(item): Python calls it when item is not set
__getattr__(r, item, ok) ==
    LET r0 == [r EXCEPT !.depth = @ + 1] IN
    IF ~r0.o._initialized
    THEN LET r1 == initialize([r0 EXCEPT !.o._initialized = TRUE], ok)
         IN  IF r1.outcome = "InitError" THEN r1
             ELSE getattr(r1, item, ok)
    ELSE [r0 EXCEPT !.outcome = "AttributeError"]

\* getattr(self, item): the attribute if it is set, else __getattr__
getattr(r, item, ok) ==
    IF item \in r.o.attrs THEN [r EXCEPT !.outcome = "value"]
    ELSE __getattr__(r, item, ok)

InitLazy ==
    /\ subclasses = ImportedSubclasses
    /\ handlers = <<>>
    /\ regs = <<>>
    /\ last_call = [event |-> "none", method |-> "none", error |-> "none"]
    /\ task = [t \in Workers |-> [IdleTask EXCEPT !.pc = "off"]]
    /\ EventStatic = StaticNone
    /\ lazy = NoLazy
    /\ call = NoCall

\* requester = LazyRequester()
NewLazyRequester ==
    /\ ~lazy.made
    /\ lazy' = LazyRequester
    /\ UNCHANGED <<subclasses, handlers, regs, last_call, task, EventStatic, call>>

\* requester.item is read; ok: initialize, if this read calls it, succeeds
ReadLazy(item, ok) ==
    /\ lazy.made
    /\ Len(lazy.reads) < MaxLazyReads
    /\ LET r == getattr([o |-> lazy, outcome |-> "none", inits |-> 0,
                         depth |-> 0], item, ok)
       IN  lazy' = [r.o EXCEPT
                      !.reads = Append(lazy.reads,
                                  [item |-> item,
                                   absent |-> item \notin lazy.attrs,
                                   outcome |-> r.outcome,
                                   inits |-> r.inits,
                                   depth |-> r.depth])]
    /\ UNCHANGED <<subclasses, handlers, regs, last_call, task, EventStatic, call>>

NextLazy ==
    \/ NewLazyRequester
    \/ \E item \in LazyAttrs, ok \in BOOLEAN : ReadLazy(item, ok)

SpecLazy == InitLazy /\ [][NextLazy]_vars

\* C20: over any sequence of attribute reads of one LazyRequester, initialize
\* is invoked by the first read of an attribute that is not set and by no
\* other read, also when that initialize raised; every later read of an
\* attribute that is still not set fails with AttributeError; and no read
\* enters __getattr__ more than twice.
C20_InitializeAtMostOnce ==
    lazy.made =>
        LET rd == lazy.reads
            firstAbsent(i) == /\ rd[i].absent
                              /\ \A j \in 1..(i - 1) : ~rd[j].absent
        IN  \A i \in 1..Len(rd) :
                /\ rd[i].inits = IF firstAbsent(i) THEN 1 ELSE 0
                /\ (rd[i].absent /\ ~firstAbsent(i)) =>
                       rd[i].outcome = "AttributeError"
                /\ rd[i].depth <= 2

\* C20 witness: the first read of an attribute that is not set called
\* initialize, which raised; the next read of it failed with AttributeError
C20_Witness ==
    /\ lazy.made
    /\ Len(lazy.reads) >= 2
    /\ lazy.reads[1].absent
    /\ lazy.reads[1].outcome = "InitError"
    /\ lazy.reads[2].item = lazy.reads[1].item
    /\ lazy.reads[2].absent
    /\ lazy.reads[2].outcome = "AttributeError"

\* -------------------------------------------------------------------- match
\* items in the data mapping match is called with
MaxDataItems == 2

MatchKeys ==
    {kEvent, kAction, kState, <<"x">>}
MatchValues ==
    {Str("check_suite"), Str("status"), Str("completed"), Str("success")}

\* the data mappings of at most n items
RECURSIVE DataOf(_)
DataOf(n) ==
    IF n = 0 THEN {<<>>}
    ELSE LET shorter == DataOf(n - 1)
             longest == {d \in shorter : Len(d) = n - 1}
         IN  shorter \cup
             {Append(x[1], <<x[2], x[3]>>) :
                 x \in {y \in longest \X MatchKeys \X MatchValues :
                           y[2] \notin DictKeys(y[1])}}

\* cls.match(data) as a call: what it returns, or the error it raises.
\* Event.event_identifier is None, and None has no items()
MatchCall(cls, data) ==
    IF cls = "Event" THEN "AttributeError"
    ELSE IF match(cls, data) THEN "True" ELSE "False"

InitMatch ==
    /\ subclasses = ImportedSubclasses
    /\ handlers = <<>>
    /\ regs = <<>>
    /\ last_call = [event |-> "none", method |-> "none", error |-> "none"]
    /\ task = [t \in Workers |-> [IdleTask EXCEPT !.pc = "off"]]
    /\ EventStatic = StaticNone
    /\ lazy = NoLazy
    /\ call \in {[op |-> "match", cls |-> c, data |-> d, results |-> <<>>] :
                    c \in Types, d \in DataOf(MaxDataItems)}

\* cls.match(data)
Match ==
    /\ call.op = "match"
    /\ Len(call.results) = 0
    /\ call' = [call EXCEPT !.results = <<MatchCall(call.cls, call.data)>>]
    /\ UNCHANGED <<subclasses, handlers, regs, last_call, task, EventStatic, lazy>>

NextMatch ==
    Match

SpecMatch == InitMatch /\ [][NextMatch]_vars

\* the items of the identifier of cls; the root declares none
IdentifierItems(cls) ==
    IF cls = "Event" THEN <<>> ELSE event_identifier(cls)

\* C21 as claimed: for every event type and every data mapping, match returns
\* true exactly when every key of the type's event_identifier is in the data
\* with an equal value, whatever else the data holds; a type without
\* identifier items matches every data mapping.
C21_MatchIffIdentifierInData ==
    (call.op = "match" /\ Len(call.results) = 1) =>
        LET ident == IdentifierItems(call.cls)
            holds == \A i \in 1..Len(ident) :
                        \E j \in 1..Len(call.data) : call.data[j] = ident[i]
        IN  call.results[1] = IF holds THEN "True" ELSE "False"

\* C22 as claimed: no request of a resource object an event built from the
\* payload goes to a payload-supplied "https://github.com/..." url: the url
\* was rewritten to the API host before.
C22_NoRequestToWebUrl ==
    \A t \in Workers : \A f \in DOMAIN task[t].objs :
        \A i \in 1..Len(task[t].objs[f].requested) :
            ~StartsWith(task[t].objs[f].requested[i], WebHost)

\* C23: across any sequence of add_handler and handle operations the registry
\* is append-only: every step leaves each list of the registry a prefix of
\* what it is afterwards, only the lists of types without subclasses grow or
\* appear, and a step of handle leaves the registry as it is, creating no key
\* even when the classified type has no registered handler.
C23_RegistryAppendOnly ==
    [][/\ \A c \in DOMAIN handlers :
              /\ c \in DOMAIN handlers'
              /\ Len(handlers'[c]) >= Len(handlers[c])
              /\ SubSeq(handlers'[c], 1, Len(handlers[c])) = handlers[c]
       /\ \A c \in DOMAIN handlers' :
              (c \notin DOMAIN handlers \/ handlers'[c] # HandlersOf(handlers, c))
                  => subclasses[c] = <<>>
       /\ task' # task => handlers' = handlers]_vars

\* C23 witness: after two registrations for one leaf, handle returned for a
\* delivery classified to a type without registered handler
C23_Witness ==
    /\ \E c \in DOMAIN handlers : Len(handlers[c]) = 2
    /\ \E t \in Workers :
          /\ task[t].pc = "done"
          /\ task[t].outcome = "ok"
          /\ task[t].list = "none"
          /\ task[t].event_class \notin DOMAIN handlers

\* ------------------------------------------- registration during a dispatch
\* An application that registered on_event for every event at import and
\* registers once more while it serves: add_handler is called by a running
\* handler or by another thread, at any point of a dispatch
NextDyn ==
    \/ \E event \in Types, method \in {m \in Methods : NParams(m) = 1} :
          add_handler(event, method)
    \/ \E t \in Workers, d \in 1..Len(Deliveries) : HandleStart(t, d)
    \/ \E t \in Workers, flow \in {"user", "installation"}, ok \in BOOLEAN :
          HandleAuth(t, flow, ok)
    \/ \E t \in Workers : HandleNext(t)
    \/ \E t \in Workers : HandlerReturn(t)
    \/ \E t \in Workers : HandlerRaise(t)
    \/ \E t \in Workers : HandleReturn(t)

SpecDyn == InitRes /\ [][NextDyn]_vars

\* C24 as claimed: a registration made while a dispatch for the same leaf type
\* is in progress does not alter that dispatch: when handle returns, it has
\* invoked exactly the handlers that were registered for the leaf when the
\* dispatch started.
C24_DispatchInvokesHandlersAtStart ==
    \A t \in Workers :
        (task[t].pc = "done" /\ task[t].outcome = "ok") =>
            MethodsOf(task[t].calls) = task[t].at_start

\* C25: a delivery classified to a type that has subclasses (none of them
\* matches) invokes no handler and constructs no event, also when a handler
\* was registered against that very type, as long as no class was declared
\* since the registrations.
C25_NonLeafDeliveryInvokesNothing ==
    \A t \in Workers :
        (/\ InHandle(t)
         /\ subclasses[task[t].event_class] # <<>>
         /\ \A i \in 1..Len(regs) : regs[i].defined = Defined) =>
            /\ task[t].calls = <<>>
            /\ task[t].ninst = 0

\* C25 witness: a handler was registered against CheckSuiteEvent, and handle
\* returned for a check_suite delivery with an action no subclass declares
C25_Witness ==
    \E t \in Workers :
        /\ task[t].pc = "done"
        /\ task[t].outcome = "ok"
        /\ task[t].event_class = "CheckSuiteEvent"
        /\ task[t].calls = <<>>
        /\ task[t].ninst = 0
        /\ \E i \in 1..Len(regs) : regs[i].event = "CheckSuiteEvent"
        /\ \A i \in 1..Len(regs) : regs[i].defined = Defined

\* the <<key, value>> pairs the union of the headers and the body of each
\* delivery is to hold: for every normalized key, the value of the item
\* processed last, the headers going first
LastValues ==
    [d \in 1..Len(Deliveries) |->
        LET items == HeadersOf(d) \o BodyOf(d)
        IN  {<<ExpectedKey(items[i][1]), items[i][2]>> :
                i \in {j \in 1..Len(items) :
                          \A m \in (j + 1)..Len(items) :
                              ExpectedKey(items[m][1]) # ExpectedKey(items[j][1])}}]

\* C26: when keys normalize to the same key, normalize_dicts keeps the value
\* processed last, so in get_event a body field overrides a header of the
\* same normalized name: with a body key "event" the union holds the body's
\* value under "event", not that of the X-Github-Event header, and the
\* classified type is the one whose identifier has the body's value.
C26_BodyOverridesHeader ==
    \A t \in Workers :
        InHandle(t) =>
            LET d == task[t].d
                u == UnionDict[d]
                cls == task[t].event_class
            IN  /\ {u[i] : i \in 1..Len(u)} = LastValues[d]
                /\ kEvent \in DictKeys(BodyOf(d)) =>
                      LET v == DictGet(BodyOf(d), kEvent) IN
                      /\ DictGet(u, kEvent) = v
                      /\ \A a \in AncestorsOrSelf(cls) \ {"Event"} :
                            \A i \in 1..Len(event_identifier(a)) :
                                event_identifier(a)[i][1] = kEvent =>
                                    event_identifier(a)[i][2] = v
                      /\ (\E i \in 1..Len(subclasses["Event"]) :
                             event_identifier(subclasses["Event"][i])
                                = << <<kEvent, v>> >>) => cls # "Event"

\* C26 witness: a delivery with the header X-Github-Event: check_suite and the
\* body field event: status was classified StatusEvent
C26_Witness ==
    \E t \in Workers :
        /\ InHandle(t)
        /\ DictGet(HeadersOf(task[t].d), HEvent) = Str("check_suite")
        /\ kEvent \in DictKeys(BodyOf(task[t].d))
        /\ DictGet(BodyOf(task[t].d), kEvent) = Str("status")
        /\ task[t].event_class = "StatusEvent"

====
